---- MODULE Spec2Model ----
(***************************************************************************)
(* Model of the <solar-portfolio> custom element (src/unnamed/part_000):   *)
(* the SolarPortfolio host element (load / render / card overlay) and the  *)
(* ConstellationScene it owns.  Indices of items are 0-based as in the     *)
(* source; TLA+ sequences are 1-based, so item i is items[i + 1].          *)
(***************************************************************************)
EXTENDS Integers, Sequences, FiniteSets

\* ---------------------------------------------------------------- bounds
MaxItems == 2       \* longest document a fetch returns
MaxListeners == 2   \* most keydown listeners kept on the document (Spec, SceneSpec)
MaxOverlayItems == 3      \* longest document of OverlaySpec
MaxOverlayListeners == 3  \* most keydown listeners kept on the document (OverlaySpec)
MaxPending == 2     \* most document fetches in flight at once
MaxScenes == 2      \* most ConstellationScene instances ever constructed
MaxDestroys == 2    \* most destroy() calls on one scene (SceneSpec)

VARIABLES
    isConnected,    \* HTMLElement.isConnected of the host
    variant,        \* the "variant" attribute as the getter returns it
    hasDataJson,    \* whether the "data-json" attribute is set
    reducedMotion,  \* what prefersReducedMotion() returned to the latest render()
    webgl,          \* what isWebGLAvailable() returned to the latest render()
    items,          \* SolarPortfolio.items
    scene,          \* SolarPortfolio.scene: 0 (null) or a position in scenes
    activeIndex,    \* SolarPortfolio.activeIndex: Null or a number
    pending,        \* load() calls suspended at "await fetch", in start order;
                    \* TRUE marks the most recently started load
    view,           \* what container.innerHTML currently holds
    notices,        \* fallback notices inside the grid wrap
    cards,          \* the grid cards, each the id of the item it was built from
    overlay,        \* the #card-overlay element of the current container
    canvasScene,    \* scene whose canvas and labels are in the container (0: none)
    keyListeners,   \* keydown listeners this component has on the document
    scenes          \* every ConstellationScene constructed so far

vars == <<isConnected, variant, hasDataJson, reducedMotion, webgl, items, scene,
          activeIndex, pending, view, notices, cards, overlay, canvasScene,
          keyListeners, scenes>>

\* ------------------------------------------------------------ data model
Null == -1

Variants == {"constellation", "grid"}

\* The document with n items; an item is identified by its id.
Doc(n) == [k \in 1..n |-> k]

\* What a fetch of the data-json URL can produce.
Responses ==
    {[kind |-> "networkError", items |-> <<>>],
     [kind |-> "httpError", items |-> <<>>],
     [kind |-> "badJson", items |-> <<>>],
     [kind |-> "noItemsField", items |-> <<>>]}
    \cup {[kind |-> "ok", items |-> Doc(n)] : n \in 0..MaxItems}

Keys == {"Escape", "ArrowLeft", "ArrowRight"}

\* The overlay's innerHTML: the item shown and which of the .nav-prev, .nav-next
\* and .close-btn buttons it holds; NoCard is the empty innerHTML.
NoCard == [index |-> Null, prev |-> FALSE, next |-> FALSE, close |-> FALSE]

\* No element with id "card-overlay" in the shadow tree.
NoOverlay == [present |-> FALSE, active |-> FALSE, card |-> NoCard, keyHandler |-> 0]

\* A freshly created, empty overlay element.
NewOverlay == [present |-> TRUE, active |-> FALSE, card |-> NoCard, keyHandler |-> 0]

RemoveAt(s, p) == [j \in 1..(Len(s) - 1) |-> IF j < p THEN s[j] ELSE s[j + 1]]

\* ------------------------------------------------------ ConstellationScene
\* new ConstellationScene(container, labelLayer, items, accent, onItemClick).
\* A dispose counter is the number of dispose() calls the resource has had
\* (0: live); a texture slot is Null until its image has loaded.
ConstellationScene(its) ==
    [items     |-> its,
     meshes    |-> [k \in 1..Len(its) |-> k - 1],     \* userData.index
     labels    |-> [k \in 1..Len(its) |-> its[k]],    \* label bound to items[k]
     geoms     |-> [k \in 1..Len(its) |-> 0],
     mats      |-> [k \in 1..Len(its) |-> 0],
     maps      |-> [k \in 1..Len(its) |-> FALSE],     \* mat.map set
     tints     |-> [k \in 1..Len(its) |-> FALSE],     \* mat.color = accent
     textures  |-> [k \in 1..Len(its) |-> Null],
     loads     |-> [k \in 1..Len(its) |-> TRUE],      \* image load outstanding
     starsGeom |-> 0,
     starsMat  |-> 0,
     renderer  |-> 0,
     resizeL   |-> TRUE,    \* window "resize" listener registered
     clickL    |-> TRUE,    \* canvas "click" listener registered
     frame     |-> TRUE,    \* a requestAnimationFrame(animate) is pending
     cancels   |-> 0]       \* cancelAnimationFrame calls

\* The success callback writing through an index shared by all iterations
\* (the last one) instead of its own mat and i.
OnTextureLoadSharedIndex(s, i) ==
    [s EXCEPT !.maps[Len(s.maps)] = TRUE, !.textures[Len(s.textures)] = 0,
              !.loads[i + 1] = FALSE]

\* TextureLoader.load success callback of item i (0-based).
OnTextureLoad(s, i) ==
    [s EXCEPT !.maps[i + 1] = TRUE, !.textures[i + 1] = 0, !.loads[i + 1] = FALSE]

\* TextureLoader.load error callback of item i (0-based).
OnTextureError(s, i) ==
    [s EXCEPT !.tints[i + 1] = TRUE, !.loads[i + 1] = FALSE]

\* ConstellationScene.animate: re-requests itself, then moves meshes and labels
\* (positions are not part of the model).
SceneAnimate(s) == [s EXCEPT !.frame = TRUE]

\* ConstellationScene.destroy.
Destroy(s) ==
    [s EXCEPT !.frame = FALSE,
              !.cancels = @ + 1,
              !.resizeL = FALSE,
              !.clickL = FALSE,
              !.renderer = @ + 1,
              !.geoms = [k \in DOMAIN @ |-> @[k] + 1],
              !.mats = [k \in DOMAIN @ |-> @[k] + 1],
              !.textures = [k \in DOMAIN @ |-> IF @[k] = Null THEN Null ELSE @[k] + 1],
              !.starsGeom = @ + 1,
              !.starsMat = @ + 1]

\* --------------------------------------------------------- card overlay
\* The part of the state showCard / hideCard work on.  alive is only used while
\* a keydown event is dispatched: alive[j] is the current position in
\* keyListeners of the j-th listener of the dispatch's snapshot, 0 once removed.
CardState(ai, ov, kl, al) ==
    [activeIndex |-> ai, overlay |-> ov, keyListeners |-> kl, alive |-> al]

\* showCard with hasNext computed as index < items.length.
ShowCardNextOffByOne(st, its, index) ==
    LET hasPrev == index > 0
        hasNext == index < Len(its)
        st1 == [st EXCEPT !.activeIndex = index]
    IN  IF ~((index + 1) \in DOMAIN its) THEN st1
        ELSE IF ~st.overlay.present THEN st1
        ELSE [st1 EXCEPT
                !.overlay = [present |-> TRUE,
                             active |-> TRUE,
                             card |-> [index |-> index, prev |-> hasPrev, next |-> hasNext,
                                       close |-> TRUE],
                             keyHandler |-> Len(st.keyListeners) + 1],
                !.keyListeners = Append(@, [index |-> index, hasPrev |-> hasPrev,
                                            hasNext |-> hasNext])]

\* SolarPortfolio.showCard(index), with its as this.items.
ShowCard(st, its, index) ==
    LET hasPrev == index > 0
        hasNext == index < Len(its) - 1
        st1 == [st EXCEPT !.activeIndex = index]
    IN  IF ~((index + 1) \in DOMAIN its) THEN st1
        ELSE IF ~st.overlay.present THEN st1
        ELSE [st1 EXCEPT
                !.overlay = [present |-> TRUE,
                             active |-> TRUE,
                             card |-> [index |-> index, prev |-> hasPrev, next |-> hasNext,
                                       close |-> TRUE],
                             keyHandler |-> Len(st.keyListeners) + 1],
                !.keyListeners = Append(@, [index |-> index, hasPrev |-> hasPrev,
                                            hasNext |-> hasNext])]

\* SolarPortfolio.hideCard().
HideCard(st) ==
    LET st1 == [st EXCEPT !.activeIndex = Null]
        p == st.overlay.keyHandler
    IN  IF ~st.overlay.present THEN st1
        ELSE IF p = 0
             THEN [st1 EXCEPT !.overlay.active = FALSE, !.overlay.card = NoCard]
             ELSE [st1 EXCEPT
                     !.overlay.active = FALSE,
                     !.overlay.card = NoCard,
                     !.overlay.keyHandler = 0,
                     !.keyListeners = RemoveAt(@, p),
                     !.alive = [j \in DOMAIN @ |->
                                  IF @[j] = p THEN 0
                                  ELSE IF @[j] > p THEN @[j] - 1 ELSE @[j]]]

\* The keyHandler closure created by showCard(index): h holds the index,
\* hasPrev and hasNext it closed over.
KeyHandler(st, its, h, key) ==
    LET s1 == IF key = "Escape" THEN HideCard(st) ELSE st
        s2 == IF key = "ArrowLeft" /\ h.hasPrev THEN ShowCard(s1, its, h.index - 1) ELSE s1
        s3 == IF key = "ArrowRight" /\ h.hasNext THEN ShowCard(s2, its, h.index + 1) ELSE s2
    IN  s3

\* Dispatch of one keydown event on the document: the listeners registered when
\* the dispatch starts (snapshot) run in registration order; one removed
\* meanwhile does not run, one added meanwhile does not run either.
RECURSIVE DispatchKeydown(_, _, _, _, _)
DispatchKeydown(st, its, snapshot, key, j) ==
    IF j > Len(snapshot) THEN st
    ELSE IF st.alive[j] = 0 THEN DispatchKeydown(st, its, snapshot, key, j + 1)
    ELSE DispatchKeydown(KeyHandler(st, its, snapshot[j], key), its, snapshot, key, j + 1)

\* ------------------------------------------------------------- rendering
\* useGrid without the reduced-motion test.
UseGridIgnoringMotion(v, rm, gl) == v = "grid" \/ ~gl

\* useGrid of SolarPortfolio.render.
UseGrid(v, rm, gl) == v = "grid" \/ rm \/ ~gl

\* The argument render passes to renderGrid.
ShowWebGLNotice(v, gl) == ~gl /\ v # "grid"

\* The fallback notices renderGrid appends.
GridNotices(showWebGLNotice, v, rm) ==
    (IF showWebGLNotice THEN {"webgl"} ELSE {})
    \cup (IF rm /\ v # "grid" THEN {"motion"} ELSE {})

\* renderGrid stopping one item short of the end of the list.
GridCardsDropLast(its) == [k \in 1..(Len(its) - 1) |-> its[k]]

\* The cards renderGrid builds, one per item in items.forEach order.
GridCards(its) == [k \in 1..Len(its) |-> its[k]]

\* SolarPortfolio.render with this.items = its, while prefersReducedMotion()
\* returns rm and isWebGLAvailable() returns gl.
Render(its, rm, gl) ==
    IF UseGrid(variant, rm, gl)
    THEN /\ view' = "grid"
         /\ notices' = GridNotices(ShowWebGLNotice(variant, gl), variant, rm)
         /\ cards' = GridCards(its)
         /\ overlay' = NewOverlay
         /\ canvasScene' = 0
         /\ UNCHANGED <<scene, scenes>>
    ELSE /\ Len(scenes) < MaxScenes
         /\ view' = "constellation"
         /\ notices' = {}
         /\ cards' = <<>>
         /\ overlay' = NewOverlay
         /\ scenes' = Append(scenes, ConstellationScene(its))
         /\ scene' = Len(scenes) + 1
         /\ canvasScene' = Len(scenes) + 1

\* The synchronous part of SolarPortfolio.load, up to "await fetch(jsonUrl)";
\* dj is whether the data-json attribute is set.  (The poster image and the
\* loading text are one placeholder view.)
LoadStart(dj) ==
    /\ notices' = {}
    /\ cards' = <<>>
    /\ overlay' = NoOverlay
    /\ canvasScene' = 0
    /\ IF ~dj
       THEN /\ view' = "noSource"
            /\ pending' = [j \in 1..Len(pending) |-> FALSE]
       ELSE /\ Len(pending) < MaxPending
            /\ view' = "loading"
            /\ pending' = Append([j \in 1..Len(pending) |-> FALSE], TRUE)

\* this.scene?.destroy(); this.scene = null
DestroyScene ==
    /\ scenes' = IF scene = 0 THEN scenes ELSE [scenes EXCEPT ![scene] = Destroy(@)]
    /\ scene' = 0

\* ------------------------------------------------------------- lifecycle
ConnectedCallback ==
    /\ ~isConnected
    /\ isConnected' = TRUE
    /\ LoadStart(hasDataJson)
    /\ UNCHANGED <<variant, hasDataJson, reducedMotion, webgl, items, scene,
                   activeIndex, keyListeners, scenes>>

DisconnectedCallback ==
    /\ isConnected
    /\ isConnected' = FALSE
    /\ DestroyScene
    /\ UNCHANGED <<variant, hasDataJson, reducedMotion, webgl, items, activeIndex,
                   pending, view, notices, cards, overlay, canvasScene, keyListeners>>

\* An observed attribute was set; v and dj are the variant and the presence of
\* data-json after the change (both as before when poster or accent changed).
AttributeChangedCallback(v, dj) ==
    /\ v = variant \/ dj = hasDataJson
    /\ variant' = v
    /\ hasDataJson' = dj
    /\ IF isConnected
       THEN DestroyScene /\ LoadStart(dj)
       ELSE UNCHANGED <<scene, scenes, pending, view, notices, cards, overlay, canvasScene>>
    /\ UNCHANGED <<isConnected, reducedMotion, webgl, items, activeIndex, keyListeners>>

FetchErrors == {"networkError", "httpError", "badJson"}

\* The fetch of the p-th suspended load() fails (fetch rejects, resp.ok is
\* false, or resp.json() rejects) and load() runs its catch block.
FetchFailed(p, r) ==
    /\ p \in 1..Len(pending)
    /\ r.kind \in FetchErrors
    /\ pending' = RemoveAt(pending, p)
    /\ view' = "failed"
    /\ notices' = {}
    /\ cards' = <<>>
    /\ overlay' = NoOverlay
    /\ canvasScene' = 0
    /\ UNCHANGED <<isConnected, variant, hasDataJson, reducedMotion, webgl, items,
                   scene, activeIndex, keyListeners, scenes>>

\* The fetch of the p-th suspended load() yields a parsed body r and load()
\* runs to its end; rm and gl are what the platform answers to render().
FetchLoaded(p, r, rm, gl) ==
    /\ p \in 1..Len(pending)
    /\ r.kind \notin FetchErrors
    /\ pending' = RemoveAt(pending, p)
    /\ items' = r.items
    /\ reducedMotion' = rm
    /\ webgl' = gl
    /\ Render(r.items, rm, gl)
    /\ UNCHANGED <<isConnected, variant, hasDataJson, activeIndex, keyListeners>>

\* ----------------------------------------------------------- interaction
Here == CardState(activeIndex, overlay, keyListeners, <<>>)

Become(st) ==
    /\ activeIndex' = st.activeIndex
    /\ overlay' = st.overlay
    /\ keyListeners' = st.keyListeners
    /\ UNCHANGED <<isConnected, variant, hasDataJson, reducedMotion, webgl, items,
                   scene, pending, view, notices, cards, canvasScene, scenes>>

\* Click, Enter or Space on the grid card of index i.
CardActivate(i) ==
    /\ isConnected
    /\ view = "grid"
    /\ (i + 1) \in DOMAIN cards
    /\ Become(ShowCard(Here, items, i))

\* Click on the label button of index i of the scene in the container.
LabelClick(i) ==
    /\ isConnected
    /\ canvasScene # 0
    /\ (i + 1) \in DOMAIN scenes[canvasScene].labels
    /\ Become(ShowCard(Here, items, i))

\* handleCanvasClick whose ray hits the mesh of index i first.
HandleCanvasClick(i) ==
    /\ isConnected
    /\ canvasScene # 0
    /\ scenes[canvasScene].clickL
    /\ ~overlay.active
    /\ \E k \in DOMAIN scenes[canvasScene].meshes : scenes[canvasScene].meshes[k] = i
    /\ Become(ShowCard(Here, items, i))

NavPrevClick ==
    /\ isConnected
    /\ overlay.card.prev
    /\ Become(ShowCard(Here, items, overlay.card.index - 1))

NavNextClick ==
    /\ isConnected
    /\ overlay.card.next
    /\ Become(ShowCard(Here, items, overlay.card.index + 1))

CloseClick ==
    /\ isConnected
    /\ overlay.card.close
    /\ Become(HideCard(Here))

\* Click whose target is the overlay element itself.
BackgroundClick ==
    /\ isConnected
    /\ overlay.active
    /\ Become(HideCard(Here))

\* A keydown event reaches the document.
KeyDown(key) ==
    /\ keyListeners # <<>>
    /\ Become(DispatchKeydown(
                 CardState(activeIndex, overlay, keyListeners,
                           [j \in 1..Len(keyListeners) |-> j]),
                 items, keyListeners, key, 1))

\* The pending animation frame of scene k runs.
Animate(k) ==
    /\ k \in DOMAIN scenes
    /\ scenes[k].frame
    /\ scenes' = [scenes EXCEPT ![k] = SceneAnimate(@)]
    /\ UNCHANGED <<isConnected, variant, hasDataJson, reducedMotion, webgl, items,
                   scene, activeIndex, pending, view, notices, cards, overlay,
                   canvasScene, keyListeners>>

\* The window "resize" event reaches the resize listener of scene k
\* (sizes are not part of the model).
Resize(k) ==
    /\ k \in DOMAIN scenes
    /\ scenes[k].resizeL
    /\ UNCHANGED vars

\* The image of item i of scene k loads.
TextureLoaded(k, i) ==
    /\ k \in DOMAIN scenes
    /\ (i + 1) \in DOMAIN scenes[k].loads
    /\ scenes[k].loads[i + 1]
    /\ scenes' = [scenes EXCEPT ![k] = OnTextureLoad(@, i)]
    /\ UNCHANGED <<isConnected, variant, hasDataJson, reducedMotion, webgl, items,
                   scene, activeIndex, pending, view, notices, cards, overlay,
                   canvasScene, keyListeners>>

\* The image of item i of scene k fails to load.
TextureFailed(k, i) ==
    /\ k \in DOMAIN scenes
    /\ (i + 1) \in DOMAIN scenes[k].loads
    /\ scenes[k].loads[i + 1]
    /\ scenes' = [scenes EXCEPT ![k] = OnTextureError(@, i)]
    /\ UNCHANGED <<isConnected, variant, hasDataJson, reducedMotion, webgl, items,
                   scene, activeIndex, pending, view, notices, cards, overlay,
                   canvasScene, keyListeners>>

\* destroy() is called on scene k by whoever holds the instance.
DestroyCall(k) ==
    /\ k \in DOMAIN scenes
    /\ scenes[k].cancels < MaxDestroys
    /\ scenes' = [scenes EXCEPT ![k] = Destroy(@)]
    /\ UNCHANGED <<isConnected, variant, hasDataJson, reducedMotion, webgl, items,
                   scene, activeIndex, pending, view, notices, cards, overlay,
                   canvasScene, keyListeners>>

\* ------------------------------------------------------------ the program
\* The step leaves at most m keydown listeners on the document.
Fits(m) == Len(keyListeners') <= m

Init ==
    /\ isConnected = FALSE
    /\ variant \in Variants
    /\ hasDataJson \in BOOLEAN
    /\ reducedMotion = FALSE
    /\ webgl = TRUE
    /\ items = <<>>
    /\ scene = 0
    /\ activeIndex = Null
    /\ pending = <<>>
    /\ view = "empty"
    /\ notices = {}
    /\ cards = <<>>
    /\ overlay = NoOverlay
    /\ canvasScene = 0
    /\ keyListeners = <<>>
    /\ scenes = <<>>

Next ==
    \/ ConnectedCallback
    \/ DisconnectedCallback
    \/ \E v \in Variants, dj \in BOOLEAN : AttributeChangedCallback(v, dj)
    \/ \E p \in 1..MaxPending, r \in Responses : FetchFailed(p, r)
    \/ \E p \in 1..MaxPending, r \in Responses, rm \in BOOLEAN, gl \in BOOLEAN :
          FetchLoaded(p, r, rm, gl)
    \/ \E i \in 0..(MaxItems - 1) : CardActivate(i) /\ Fits(MaxListeners)
    \/ \E i \in 0..(MaxItems - 1) : LabelClick(i) /\ Fits(MaxListeners)
    \/ \E i \in 0..(MaxItems - 1) : HandleCanvasClick(i) /\ Fits(MaxListeners)
    \/ NavPrevClick /\ Fits(MaxListeners)
    \/ NavNextClick /\ Fits(MaxListeners)
    \/ CloseClick
    \/ BackgroundClick
    \/ \E key \in Keys : KeyDown(key) /\ Fits(MaxListeners)
    \/ \E k \in 1..MaxScenes : Animate(k)
    \/ \E k \in 1..MaxScenes : Resize(k)

Spec == Init /\ [][Next]_vars

\* ------------------------------------------- loading and rendering alone
\* The host's lifecycle callbacks and fetch completions, with no user input.
LoadNext ==
    \/ ConnectedCallback
    \/ DisconnectedCallback
    \/ \E v \in Variants, dj \in BOOLEAN : AttributeChangedCallback(v, dj)
    \/ \E p \in 1..MaxPending, r \in Responses : FetchFailed(p, r)
    \/ \E p \in 1..MaxPending, r \in Responses, rm \in BOOLEAN, gl \in BOOLEAN :
          FetchLoaded(p, r, rm, gl)
    \/ \E k \in 1..MaxScenes : Animate(k)
    \/ \E k \in 1..MaxScenes : Resize(k)

LoadSpec == Init /\ [][LoadNext]_vars

\* ------------------------------------------- one ConstellationScene alone
\* The state right after renderConstellation built a scene for a document of
\* n items; from there the scene's own callbacks and destroy() run.
SceneInit ==
    \E n \in 0..MaxItems :
        /\ isConnected = TRUE
        /\ variant = "constellation"
        /\ hasDataJson = TRUE
        /\ reducedMotion = FALSE
        /\ webgl = TRUE
        /\ items = Doc(n)
        /\ scene = 1
        /\ activeIndex = Null
        /\ pending = <<>>
        /\ view = "constellation"
        /\ notices = {}
        /\ cards = <<>>
        /\ overlay = NewOverlay
        /\ canvasScene = 1
        /\ keyListeners = <<>>
        /\ scenes = <<ConstellationScene(Doc(n))>>

SceneNext ==
    \/ \E i \in 0..(MaxItems - 1) : TextureLoaded(1, i)
    \/ \E i \in 0..(MaxItems - 1) : TextureFailed(1, i)
    \/ Animate(1)
    \/ Resize(1)
    \/ DestroyCall(1)
    \/ \E i \in 0..(MaxItems - 1) : LabelClick(i) /\ Fits(MaxListeners)
    \/ \E i \in 0..(MaxItems - 1) : HandleCanvasClick(i) /\ Fits(MaxListeners)
    \/ CloseClick

SceneSpec == SceneInit /\ [][SceneNext]_vars

\* ------------------------------------------------- the card overlay alone
\* The state right after a document of n items was loaded and rendered, as a
\* grid or as a scene; from there only the user acts.
OverlayInit ==
    \E n \in 1..MaxOverlayItems, v \in Variants :
        /\ isConnected = TRUE
        /\ variant = v
        /\ hasDataJson = TRUE
        /\ reducedMotion = FALSE
        /\ webgl = TRUE
        /\ items = Doc(n)
        /\ activeIndex = Null
        /\ pending = <<>>
        /\ notices = {}
        /\ overlay = NewOverlay
        /\ keyListeners = <<>>
        /\ IF v = "grid"
           THEN /\ view = "grid"
                /\ cards = GridCards(Doc(n))
                /\ scenes = <<>>
                /\ scene = 0
                /\ canvasScene = 0
           ELSE /\ view = "constellation"
                /\ cards = <<>>
                /\ scenes = <<ConstellationScene(Doc(n))>>
                /\ scene = 1
                /\ canvasScene = 1

OverlayNext ==
    \/ \E i \in 0..(MaxOverlayItems - 1) : CardActivate(i) /\ Fits(MaxOverlayListeners)
    \/ \E i \in 0..(MaxOverlayItems - 1) : LabelClick(i) /\ Fits(MaxOverlayListeners)
    \/ \E i \in 0..(MaxOverlayItems - 1) : HandleCanvasClick(i) /\ Fits(MaxOverlayListeners)
    \/ NavPrevClick /\ Fits(MaxOverlayListeners)
    \/ NavNextClick /\ Fits(MaxOverlayListeners)
    \/ CloseClick
    \/ BackgroundClick
    \/ \E key \in Keys : KeyDown(key) /\ Fits(MaxOverlayListeners)

OverlaySpec == OverlayInit /\ [][OverlayNext]_vars

\* ================================================================ claims

\* C1: the component never has more than one keydown listener on the document,
\* and has exactly one whenever the overlay is open.
C1_OneKeyListener ==
    /\ Len(keyListeners) <= 1
    /\ overlay.active => Len(keyListeners) = 1

\* A load() begins: connectedCallback, or attributeChangedCallback on a
\* connected host.
LoadBegins ==
    \/ ConnectedCallback
    \/ isConnected /\ \E v \in Variants, dj \in BOOLEAN : AttributeChangedCallback(v, dj)

\* C2: activeIndex is always null or a valid index into the loaded items, and
\* every step that begins a load leaves it null.
C2_SelectionValid ==
    /\ [](activeIndex = Null \/ activeIndex \in 0..(Len(items) - 1))
    /\ [][LoadBegins => activeIndex' = Null]_vars

\* A load that is no longer the most recently started one completes.
StaleCompletion ==
    /\ Len(pending') = Len(pending) - 1
    /\ (\E j \in DOMAIN pending : pending[j]) = (\E j \in DOMAIN pending' : pending'[j])

\* C3: the completion of a load that a newer load has superseded changes neither
\* the item list nor what the container displays.
C3_StaleLoadIgnored ==
    [][StaleCompletion =>
         UNCHANGED <<items, view, notices, cards, overlay, canvasScene>>]_vars

\* Scenes constructed and not yet destroyed.
LiveScenes == {k \in DOMAIN scenes : scenes[k].cancels = 0}

\* C4: at most one ConstellationScene is live, so at most one animation loop is
\* scheduled.
C4_OneLiveScene ==
    /\ Cardinality(LiveScenes) <= 1
    /\ Cardinality({k \in DOMAIN scenes : scenes[k].frame}) <= 1

\* The overlay is open at index i and i is the selection.
OpenAt(i) == overlay.active /\ overlay.card.index = i /\ activeIndex = i

\* C5: with the overlay open at index i, ArrowLeft selects i - 1 and ArrowRight
\* selects i + 1, except that ArrowLeft at 0 and ArrowRight at the last index
\* leave the selection unchanged.
C5_ArrowKeysNoWrap ==
    [][\A i \in 0..(Len(items) - 1) :
         OpenAt(i) =>
           /\ KeyDown("ArrowLeft") => activeIndex' = (IF i = 0 THEN i ELSE i - 1)
           /\ KeyDown("ArrowRight") =>
                activeIndex' = (IF i = Len(items) - 1 THEN i ELSE i + 1)]_vars

Dismissal == CloseClick \/ BackgroundClick \/ KeyDown("Escape")

\* C6: a dismissal leaves the selection empty, the overlay inactive and empty
\* and no keydown listener registered; a key pressed while the overlay is
\* closed leaves it closed and the selection empty.
C6_DismissalClears ==
    [][/\ Dismissal =>
            /\ activeIndex' = Null
            /\ ~overlay'.active
            /\ overlay'.card = NoCard
            /\ keyListeners' = <<>>
       /\ (~overlay.active /\ activeIndex = Null /\ \E key \in Keys : KeyDown(key)) =>
            /\ activeIndex' = Null
            /\ ~overlay'.active]_vars

Destroyed(s) == s.cancels > 0

AnyDisposed(s) ==
    \/ s.renderer > 0
    \/ s.starsGeom > 0
    \/ s.starsMat > 0
    \/ \E i \in DOMAIN s.geoms : s.geoms[i] > 0 \/ s.mats[i] > 0 \/ s.textures[i] > 0

\* C7: once a scene is destroyed it has no frame pending, no resize or click
\* listener, and every geometry, material and texture of it is disposed; and
\* nothing of a scene is disposed while a frame of it is pending.
C7_DestroyReleasesAll ==
    \A k \in DOMAIN scenes :
        LET s == scenes[k] IN
        /\ Destroyed(s) =>
             /\ ~s.frame
             /\ ~s.resizeL
             /\ ~s.clickL
             /\ s.renderer > 0
             /\ s.starsGeom > 0
             /\ s.starsMat > 0
             /\ \A i \in DOMAIN s.geoms :
                  s.geoms[i] > 0 /\ s.mats[i] > 0 /\ s.textures[i] # 0
        /\ AnyDisposed(s) => ~s.frame

\* C8: destroy() on an already destroyed scene changes nothing: nothing is
\* cancelled, removed or disposed a second time.
C8_SecondDestroyNoOp ==
    [][\A k \in DOMAIN scenes :
         (Destroyed(scenes[k]) /\ DestroyCall(k)) => scenes' = scenes]_vars

\* A load() got its document and rendered.
RenderStep == Len(pending') < Len(pending) /\ view' # "failed"

\* C9: render() shows the grid if reduced motion is preferred, else if the
\* variant is "grid", else if WebGL is unavailable, and the scene otherwise; a
\* scene is constructed exactly in that last case.
C9_RenderPrecedence ==
    [][RenderStep =>
         /\ view' = (IF reducedMotion' THEN "grid"
                     ELSE IF variant = "grid" THEN "grid"
                     ELSE IF ~webgl' THEN "grid"
                     ELSE "constellation")
         /\ (Len(scenes') = Len(scenes) + 1)
              <=> (~reducedMotion' /\ variant # "grid" /\ webgl')]_vars

\* The grid was rendered because WebGL is unavailable (third branch).
C9_Witness ==
    /\ isConnected
    /\ view = "grid"
    /\ variant = "constellation"
    /\ ~reducedMotion
    /\ ~webgl

\* C10: the grid shows no notice for variant "grid", the reduced-motion notice
\* iff reduced motion forced it, the WebGL notice iff only the missing WebGL
\* forced it, and never more than one notice.
C10_OneNotice ==
    [][(RenderStep /\ view' = "grid") =>
         /\ variant = "grid" => notices' = {}
         /\ "motion" \in notices' <=> (reducedMotion' /\ variant # "grid")
         /\ "webgl" \in notices' <=> (~reducedMotion' /\ variant # "grid" /\ ~webgl')
         /\ Cardinality(notices') <= 1]_vars

\* C11: an open overlay showing index i of n items holds a previous control iff
\* i > 0, a next control iff i < n - 1, and always a close control.
C11_NavControls ==
    overlay.active =>
        /\ overlay.card.index \in 0..(Len(items) - 1)
        /\ overlay.card.prev <=> overlay.card.index > 0
        /\ overlay.card.next <=> overlay.card.index < Len(items) - 1
        /\ overlay.card.close

\* The overlay was navigated to the last of three items.
C11_Witness ==
    /\ overlay.active
    /\ Len(items) = 3
    /\ overlay.card.index = 2
    /\ Len(keyListeners) >= 2

\* A suspended load() runs its catch block.
FailedStep == Len(pending') < Len(pending) /\ view' = "failed"

\* A load() finds no data-json attribute.
NoSourceStep == LoadBegins /\ ~hasDataJson'

\* C12: a failed fetch ends the load with only the "Failed to load" notice in
\* the container, no cards, surfaces or labels and no live scene; a load without
\* data-json shows only the "no data source" notice and starts no fetch.
C12_FailureShowsOnlyNotice ==
    /\ [][FailedStep =>
            /\ notices' = {}
            /\ cards' = <<>>
            /\ ~overlay'.present
            /\ canvasScene' = 0
            /\ LiveScenes' = {}]_vars
    /\ [][NoSourceStep =>
            /\ view' = "noSource"
            /\ notices' = {}
            /\ cards' = <<>>
            /\ canvasScene' = 0
            /\ Len(pending') = Len(pending)
            /\ \A j \in DOMAIN pending' : ~pending'[j]]_vars

\* C13: a rendered grid holds one card per loaded item, and a rendered scene one
\* surface and one label per loaded item, the k-th of each standing for the k-th
\* item of the document and reporting its index (0-based); a document without
\* an items field gives none.
C13_OnePerItemInOrder ==
    /\ view = "grid" =>
          /\ Len(cards) = Len(items)
          /\ \A k \in DOMAIN items : cards[k] = items[k]
    /\ view = "constellation" =>
          /\ canvasScene \in DOMAIN scenes
          /\ Len(scenes[canvasScene].meshes) = Len(items)
          /\ Len(scenes[canvasScene].labels) = Len(items)
          /\ \A k \in DOMAIN items :
                /\ scenes[canvasScene].meshes[k] = k - 1
                /\ scenes[canvasScene].labels[k] = items[k]

\* A two-item document is shown as a grid.
C13_Witness ==
    /\ view = "grid"
    /\ Len(items) = 2
    /\ cards = <<1, 2>>

\* The step changes nothing of the items of scene k other than item i (0-based).
OthersUnchanged(k, i) ==
    \A j \in DOMAIN scenes[k].loads \ {i + 1} :
        /\ scenes'[k].maps[j] = scenes[k].maps[j]
        /\ scenes'[k].tints[j] = scenes[k].tints[j]
        /\ scenes'[k].textures[j] = scenes[k].textures[j]
        /\ scenes'[k].loads[j] = scenes[k].loads[j]
        /\ scenes'[k].geoms[j] = scenes[k].geoms[j]
        /\ scenes'[k].mats[j] = scenes[k].mats[j]
        /\ scenes'[k].meshes[j] = scenes[k].meshes[j]
        /\ scenes'[k].labels[j] = scenes[k].labels[j]

\* What item j of scene s looks like follows from the outcome of its own image
\* load alone: untouched while outstanding, textured after a success, tinted
\* after a failure.
OwnOutcomeOnly(s, j) ==
    \/ s.loads[j] /\ ~s.maps[j] /\ ~s.tints[j] /\ s.textures[j] = Null
    \/ ~s.loads[j] /\ s.maps[j] /\ ~s.tints[j] /\ s.textures[j] # Null
    \/ ~s.loads[j] /\ ~s.maps[j] /\ s.tints[j] /\ s.textures[j] = Null

\* C14: image loads of a scene complete in any order; a success sets the texture
\* slot and material map of its own item, a failure tints its own item, neither
\* changes any other item, so each item's visual state depends only on its own
\* outcome and not on the order of arrival.
C14_CompletionsIndependent ==
    /\ [][\A k \in DOMAIN scenes : \A i \in 0..(Len(scenes[k].loads) - 1) :
            /\ TextureLoaded(k, i) =>
                 /\ scenes'[k].maps[i + 1]
                 /\ scenes'[k].textures[i + 1] # Null
                 /\ scenes'[k].tints[i + 1] = scenes[k].tints[i + 1]
                 /\ OthersUnchanged(k, i)
            /\ TextureFailed(k, i) =>
                 /\ scenes'[k].tints[i + 1]
                 /\ scenes'[k].maps[i + 1] = scenes[k].maps[i + 1]
                 /\ scenes'[k].textures[i + 1] = scenes[k].textures[i + 1]
                 /\ OthersUnchanged(k, i)]_vars
    /\ [](\A k \in DOMAIN scenes : \A j \in DOMAIN scenes[k].loads :
            OwnOutcomeOnly(scenes[k], j))

\* Of a two-item scene the first image failed and the second loaded.
C14_Witness ==
    /\ Len(scenes) = 1
    /\ scenes[1].loads = <<FALSE, FALSE>>
    /\ scenes[1].tints = <<TRUE, FALSE>>
    /\ scenes[1].maps = <<FALSE, TRUE>>

\* C15: while the element is disconnected it owns no live resources: no scene
\* is live, no animation frame is pending, and no window resize or document
\* keydown listener of it is registered.
C15_DisconnectedOwnsNothing ==
    ~isConnected =>
        /\ LiveScenes = {}
        /\ \A k \in DOMAIN scenes : ~scenes[k].frame /\ ~scenes[k].resizeL
        /\ keyListeners = <<>>

====
